---- MODULE Spec2Model ----
(***************************************************************************)
(* AccessLaw-UI: the chat page (src/app/page.tsx) as a state machine.      *)
(*                                                                         *)
(* The page is a React client component.  Its state is the useState cells  *)
(* (messages, input, isLoading, ...) and the abortControllerRef; every     *)
(* invocation of the async handler handleSubmit is a process whose local   *)
(* variables live in h[t] and whose position (the await it is suspended    *)
(* at) is h[t].pc.  One action of the model is one run-to-completion       *)
(* segment of JavaScript: an event handler, or the continuation of an      *)
(* await up to the next await.                                             *)
(*                                                                         *)
(* The text of the completion stream is modelled as a sequence of tokens   *)
(* (the "data: " prefix, the JSON head and tail, the content, the newline) *)
(* so that a network chunk may end in the middle of a line or of a JSON    *)
(* object.                                                                 *)
(***************************************************************************)
EXTENDS Integers, Sequences, FiniteSets, TLC

VARIABLES messages, input, isLoading, abortControllerRef, nTurns, h, aborted,
          toasts, searchCalls, chatCalls,
          documentFields, detectedDocType, currentQuery, currentResponse,
          fillingFields, showDocDialog, w, nRuns,
          generatingDoc, gen, genLog, downloads,
          detectCalls, fillCalls,
          relay, fillRoute

\* The state the document wizard writes (toasts apart).
wizVars == <<documentFields, detectedDocType, currentQuery, currentResponse,
             fillingFields, showDocDialog, w, nRuns,
             generatingDoc, gen, genLog, downloads, detectCalls, fillCalls>>

\* The state the chat turn writes (toasts apart).
chatVars == <<messages, input, isLoading, abortControllerRef, nTurns, h, aborted,
              searchCalls, chatCalls>>

\* The two route handlers of the server: the chat relay and the fill-template
\* route, one request each.
routeVars == <<relay, fillRoute>>

vars == <<chatVars, toasts, wizVars, routeVars>>

(***************************************************************************)
(* Bounds of the model.                                                    *)
(***************************************************************************)
MaxTurns == 2

Turns == 1..MaxTurns

(***************************************************************************)
(* Text.                                                                   *)
(***************************************************************************)
NL == "\n"
PFX == "data: "
DONE == "[DONE]"
JOPEN == "{\"content\":\""
JCLOSE == "\"}"
BAD == "{bad json"

StopMarker == " [Response stopped]"
ErrorText == "Sorry, I encountered an error while processing your request. Please try again."

F1 == "Section 420 "
F2 == "covers cheating."

RECURSIVE Join(_)
Join(s) == IF s = <<>> THEN "" ELSE Head(s) \o Join(Tail(s))

\* String.prototype.trim on a sequence of characters.
RECURSIVE TrimLeft(_)
TrimLeft(s) == IF s # <<>> /\ Head(s) = " " THEN TrimLeft(Tail(s)) ELSE s

RECURSIVE TrimRight(_)
TrimRight(s) ==
    IF s # <<>> /\ s[Len(s)] = " " THEN TrimRight(SubSeq(s, 1, Len(s) - 1)) ELSE s

\* trimStart() for trim().
TrimStartOnly(s) == TrimLeft(s)

Trim(s) == TrimRight(TrimLeft(s))

\* What the user may type into the input box.
Inputs == {<<>>, <<" ">>, <<" ", "q", " ">>}

(***************************************************************************)
(* The completion stream (the body of the /api/chat response).             *)
(***************************************************************************)
ContentEvent(c) == <<PFX, JOPEN, c, JCLOSE, NL, NL>>
EmptyContentEvent == <<PFX, JOPEN, JCLOSE, NL, NL>>
DoneEvent == <<PFX, DONE, NL, NL>>
BadEvent == <<PFX, BAD, NL, NL>>
EmptyPayloadEvent == <<PFX, NL, NL>>

E2EStream == ContentEvent(F1) \o ContentEvent(F2) \o DoneEvent
EmptyStream == EmptyPayloadEvent \o EmptyContentEvent \o DoneEvent
BadStream == ContentEvent(F1) \o BadEvent \o ContentEvent(F2)
AfterDoneStream == ContentEvent(F1) \o DoneEvent \o ContentEvent(F2)

Streams == {E2EStream, EmptyStream, BadStream, AfterDoneStream}

\* String.prototype.split("\n"): the pieces between the newlines, the last
\* piece (possibly empty) included.
RECURSIVE SplitLines(_, _)
SplitLines(chunk, cur) ==
    IF chunk = <<>> THEN <<cur>>
    ELSE IF Head(chunk) = NL THEN <<cur>> \o SplitLines(Tail(chunk), <<>>)
    ELSE SplitLines(Tail(chunk), Append(cur, Head(chunk)))

StartsWithData(line) == line # <<>> /\ line[1] = PFX

Special == {NL, PFX, DONE, JOPEN, JCLOSE, BAD}

\* JSON.parse(data) followed by the read of parsed.content: ok is FALSE when
\* JSON.parse throws.
JSONParse(data) ==
    IF Len(data) >= 2 /\ data[1] = JOPEN /\ data[Len(data)] = JCLOSE
       /\ \A i \in 2..(Len(data) - 1) : data[i] \notin Special
    THEN [ok |-> TRUE, content |-> Join(SubSeq(data, 2, Len(data) - 1))]
    ELSE [ok |-> FALSE, content |-> ""]

\* The locals of the read loop: streamedContent and firstTokenReceived, and
\* the record of what the loop has done (frags: the fragments appended, in
\* order; doneSeen: a [DONE] line was read; afterDone: fragments appended
\* after it; malformed: lines whose JSON.parse threw; threw: an error left
\* the loop body).
DecoderInit ==
    [streamedContent |-> "", firstTokenReceived |-> FALSE, frags |-> <<>>,
     doneSeen |-> FALSE, afterDone |-> 0, malformed |-> 0, threw |-> FALSE]

\* ProcessLine without the try/catch around JSON.parse.
ProcessLineNoCatch(line, st) ==
    IF st.threw \/ ~StartsWithData(line) THEN st
    ELSE LET data == Tail(line) IN
         IF data = <<DONE>> THEN [st EXCEPT !.doneSeen = TRUE]
         ELSE LET parsed == JSONParse(data) IN
              IF ~parsed.ok THEN [st EXCEPT !.threw = TRUE]
              ELSE IF parsed.content = "" THEN st
              ELSE [st EXCEPT !.firstTokenReceived = TRUE,
                              !.streamedContent = @ \o parsed.content,
                              !.frags = Append(@, parsed.content),
                              !.afterDone = IF st.doneSeen THEN 1 ELSE @]

\* The body of `for (const line of lines)`.
ProcessLine(line, st) ==
    IF st.threw \/ ~StartsWithData(line) THEN st
    ELSE LET data == Tail(line) IN
         IF data = <<DONE>> THEN [st EXCEPT !.doneSeen = TRUE]
         ELSE LET parsed == JSONParse(data) IN
              IF ~parsed.ok THEN [st EXCEPT !.malformed = 1]
              ELSE IF parsed.content = "" THEN st
              ELSE [st EXCEPT !.firstTokenReceived = TRUE,
                              !.streamedContent = @ \o parsed.content,
                              !.frags = Append(@, parsed.content),
                              !.afterDone = IF st.doneSeen THEN 1 ELSE @]

RECURSIVE DecodeLines(_, _)
DecodeLines(lines, st) ==
    IF lines = <<>> THEN st
    ELSE DecodeLines(Tail(lines), ProcessLine(Head(lines), st))

\* decoder.decode(value), chunk.split("\n") and the loop over the lines.
DecodeChunk(chunk, st) == DecodeLines(SplitLines(chunk, <<>>), st)

(***************************************************************************)
(* Messages.                                                               *)
(***************************************************************************)
NoRag == [present |-> FALSE, results |-> <<>>]
RagData == [present |-> TRUE, results |-> <<"IPC">>]

UserMessage(id, text) ==
    [id |-> id, type |-> "user", content |-> text, isStreaming |-> FALSE,
     isSearching |-> FALSE, hasError |-> FALSE, ragResponse |-> NoRag,
     totalTime |-> "unset"]

AssistantMessage(id) ==
    [id |-> id, type |-> "assistant", content |-> "", isStreaming |-> TRUE,
     isSearching |-> TRUE, hasError |-> FALSE, ragResponse |-> NoRag,
     totalTime |-> "unset"]

\* prev.map without the test of msg.id.
MapAllMessages(msgs, id, new) == [i \in 1..Len(msgs) |-> new[i]]

\* setMessages((prev) => prev.map((msg) => (msg.id === id ? new : msg))),
\* where new[i] is the replacement of msgs[i].
MapMessage(msgs, id, new) ==
    [i \in 1..Len(msgs) |-> IF msgs[i].id = id THEN new[i] ELSE msgs[i]]

AttachRag(m) == [m EXCEPT !.ragResponse = RagData]

Finalized(m) ==
    [m EXCEPT !.isStreaming = FALSE, !.isSearching = FALSE,
              !.totalTime = "set", !.hasError = FALSE]

\* The error state without the replacement of the content.
ErrorStateKeepsContent(m) ==
    [m EXCEPT !.isStreaming = FALSE, !.isSearching = FALSE, !.hasError = TRUE]

ErrorState(m) ==
    [m EXCEPT !.isStreaming = FALSE, !.isSearching = FALSE,
              !.hasError = TRUE, !.content = ErrorText]

\* The update of stopStreaming without `isStreaming: false`.
StoppedKeepsStreaming(m) ==
    [m EXCEPT !.isSearching = FALSE, !.content = @ \o StopMarker]

Stopped(m) ==
    [m EXCEPT !.isStreaming = FALSE, !.isSearching = FALSE,
              !.content = @ \o StopMarker]

(***************************************************************************)
(* The message of the Error thrown for a non-2xx response:                 *)
(*   const errorData = await response.json()                               *)
(*   throw new Error(`<prefix>: ${response.status} - ${errorData.detail ||  *)
(*                                                     response.statusText}`) *)
(***************************************************************************)
\* `${response.status}`
StatusString(status) ==
    IF status = 400 THEN "400" ELSE IF status = 500 THEN "500" ELSE "200"

\* response.statusText: the reason phrase of the status line.
StatusText(status) ==
    IF status = 400 THEN "Bad Request"
    ELSE IF status = 500 THEN "Internal Server Error" ELSE "OK"

HttpErrorMessage(prefix, status, errorData) ==
    prefix \o ": " \o StatusString(status) \o " - "
        \o (IF "detail" \in DOMAIN errorData /\ errorData.detail # ""
            THEN errorData.detail ELSE StatusText(status))

\* The message of the TypeError a fetch rejects with.
FetchRejected == "Failed to fetch"

\* The non-2xx answer of the backend (search, detection, generation): the
\* body the client code expects, {detail: ...}.
BackendFailure(detail) == [status |-> 500, json |-> [detail |-> detail]]

\* The non-2xx answer of POST /api/chat (its catch block).
ChatRouteFailure == [status |-> 500, json |-> [error |-> "Failed to process request"]]

\* error.message in the catch block of handleSubmit, for a search call and
\* for a completion call that did not succeed.
SearchErrorMessage(outcome) ==
    IF outcome = "http_error"
    THEN HttpErrorMessage("RAG API request failed", BackendFailure("search failed").status,
                          BackendFailure("search failed").json)
    ELSE FetchRejected

ChatErrorMessage(outcome) ==
    IF outcome = "http_error"
    THEN HttpErrorMessage("OpenRouter API request failed", ChatRouteFailure.status,
                          ChatRouteFailure.json)
    ELSE FetchRejected

(***************************************************************************)
(* Notifications: toast({title, description}).  `of` records the turn (or, *)
(* negated, the wizard run) on whose behalf the toast was emitted; the     *)
(* variable toasts holds, for each of them, the toasts emitted so far.     *)
(***************************************************************************)
Toast(title, description, of) ==
    [title |-> title, description |-> description, of |-> of]

Emit(log, toast) == [log EXCEPT ![toast.of] = Append(@, toast)]

(***************************************************************************)
(* The document wizard: documents, templates and the fill-template route   *)
(* (src/app/api/fill-template/route.ts).                                   *)
(***************************************************************************)
MaxRuns == 2

Runs == 1..MaxRuns

\* An object with no keys: {}.
EmptyObject == <<>>

\* {...a, ...b}
Spread(a, b) ==
    [k \in (DOMAIN a) \cup (DOMAIN b) |-> IF k \in DOMAIN b THEN b[k] ELSE a[k]]

DocTypes == {"legal_notice", "fir_draft"}

DefaultDocType == "legal_notice"

\* Field names, as the words the underscores separate.
FieldWords ==
    {<<"sender", "name">>, <<"subject">>, <<"date", "of", "notice">>,
     <<"complainant", "name">>}

Capital ==
    [x \in {"sender", "name", "subject", "complainant", "date", "of", "notice"} |->
        CASE x = "sender" -> "Sender"
          [] x = "name" -> "Name"
          [] x = "subject" -> "Subject"
          [] x = "complainant" -> "Complainant"
          [] x = "date" -> "Date"
          [] x = "of" -> "Of"
          [] x = "notice" -> "Notice"]

RECURSIVE JoinWith(_, _)
JoinWith(ws, sep) ==
    IF ws = <<>> THEN ""
    ELSE IF Len(ws) = 1 THEN ws[1]
    ELSE ws[1] \o sep \o JoinWith(Tail(ws), sep)

FieldKey(ws) == JoinWith(ws, "_")

WordsOf(field) == CHOOSE ws \in FieldWords : FieldKey(ws) = field

\* `[Enter ${field.replace(/_/g, " ").replace(/\b\w/g, (l) => l.toUpperCase())}]`
Placeholder(field) ==
    "[Enter " \o JoinWith([i \in 1..Len(WordsOf(field)) |-> Capital[WordsOf(field)[i]]], " ")
              \o "]"

\* `[Enter ${field.replace("_", " ").replace(/\b\w/g, (l) => l.toUpperCase())}]`:
\* a string pattern replaces the first underscore only, and a letter after
\* an underscore does not start a word.
PlaceholderFirstUnderscore(field) ==
    LET ws == WordsOf(field) IN
    "[Enter " \o (IF Len(ws) = 1 THEN Capital[ws[1]]
                  ELSE Capital[ws[1]] \o " " \o Capital[ws[2]]
                       \o (IF Len(ws) = 2 THEN ""
                           ELSE "_" \o JoinWith(SubSeq(ws, 3, Len(ws)), "_")))
              \o "]"

\* What the backend's /doc/get-template answers for a document type.
TemplateOf(documentType) ==
    IF documentType = "fir_draft"
    THEN [complainant_name |-> ""]
    ELSE [sender_name |-> "", subject |-> "Subject of the notice",
          date_of_notice |-> ""]

TemplateOutcomes(documentType) ==
    {[ok |-> TRUE, json |-> [template_fields |-> TemplateOf(documentType)]],
     [ok |-> TRUE, json |-> [detail |-> "no template"]],
     [ok |-> FALSE, json |-> [detail |-> "backend down"]]}

\* What generateText gives: it rejects, or it resolves with a text; the text
\* is JSON or not, bare or wrapped in a ```json fence.
LLMOutcomes ==
    {[kind |-> "throws", valid |-> FALSE, obj |-> EmptyObject],
     [kind |-> "bare", valid |-> FALSE, obj |-> EmptyObject],
     [kind |-> "bare", valid |-> TRUE,
      obj |-> [sender_name |-> "John Doe", subject |-> ""]],
     [kind |-> "fenced", valid |-> TRUE, obj |-> [sender_name |-> "John Doe"]]}

\* templateData.template_fields || {}
TemplateFields(json) ==
    IF "template_fields" \in DOMAIN json THEN json.template_fields ELSE EmptyObject

\* The try/catch around JSON.parse of the LLM text, fenced or bare.
ParsedOrPlaceholders(llm, templateFields) ==
    IF llm.valid THEN llm.obj
    ELSE [k \in DOMAIN templateFields |-> Placeholder(k)]

\* POST /api/fill-template.
FillTemplateRoute(query, response, documentType, tmpl, llm) ==
    IF query = "" \/ response = "" \/ documentType = ""
    THEN [status |-> 400,
          json |-> [error |-> "Missing required fields: query, response, or documentType"]]
    ELSE IF ~tmpl.ok \/ llm.kind = "throws"
    THEN [status |-> 500, json |-> [error |-> "Failed to fill template"]]
    ELSE LET templateFields == TemplateFields(tmpl.json)
             filledFields == ParsedOrPlaceholders(llm, templateFields)
             finalFields == Spread(templateFields, filledFields)
         IN [status |-> 200,
             json |-> [success |-> TRUE, fields |-> finalFields,
                       documentType |-> documentType]]

\* The try/catch around JSON.parse of the LLM text in the variant of the
\* route that calls OpenRouter directly.
ParsedOrPlaceholdersDirect(llm, templateFields) ==
    IF llm.valid THEN llm.obj
    ELSE [k \in DOMAIN templateFields |-> PlaceholderFirstUnderscore(k)]

\* POST /api/fill-template, the variant that calls OpenRouter directly.
FillTemplateRouteDirect(query, response, documentType, tmpl, llm) ==
    IF query = "" \/ response = "" \/ documentType = ""
    THEN [status |-> 400,
          json |-> [error |-> "Missing required fields: query, response, or documentType"]]
    ELSE IF ~tmpl.ok \/ llm.kind = "throws"
    THEN [status |-> 500, json |-> [error |-> "Failed to fill template"]]
    ELSE LET templateFields == TemplateFields(tmpl.json)
             filledFields == ParsedOrPlaceholdersDirect(llm, templateFields)
             finalFields == Spread(templateFields, filledFields)
         IN [status |-> 200,
             json |-> [success |-> TRUE, fields |-> finalFields,
                       documentType |-> documentType]]

\* result.filled_fields || {}
FilledFieldsOf(result) ==
    IF "filled_fields" \in DOMAIN result /\ result.filled_fields # EmptyObject
    THEN result.filled_fields ELSE EmptyObject

\* The locals of one run of openDocumentDialog: lastUserMessage and
\* lastAssistantMessage (the ids of the messages picked, 0 before the run),
\* query, response and docType; and the record of what the run has met:
\* detectOk (the detection call answered 2xx), fillStatus (the status the
\* fill-template route answered with, 0 when the fetch rejected) and fields
\* (the mapping the route returned under `fields`) and fillError (the body
\* of a non-2xx answer of the route).
RunInit ==
    [pc |-> "idle", lastUserMessage |-> 0, lastAssistantMessage |-> 0,
     query |-> "", response |-> "", docType |-> "", detectOk |-> FALSE,
     fillStatus |-> 0, fields |-> EmptyObject, fillError |-> EmptyObject]

\* A run that has returned: its locals are gone.
RunRetired == [RunInit EXCEPT !.pc = "review"]

\* The body of the generation request.
GenRequest(query, response, documentType, userDetails) ==
    [query |-> query, response |-> response, document_type |-> documentType,
     user_details |-> userDetails]

\* generateDocument: at most one invocation is suspended at its fetch.
GenInit == [pc |-> "idle", request |-> GenRequest("", "", "", EmptyObject)]

(***************************************************************************)
(* The chat relay route (POST /api/chat): the upstream text and the body   *)
(* of the read loop.                                                       *)
(***************************************************************************)
UOPEN == "{\"choices\":[{\"delta\":{\"content\":\""
UCLOSE == "\"}}]}"
ROLE == "{\"choices\":[{\"delta\":{\"role\":\"assistant\"}}]}"
COMMENT == ": OPENROUTER PROCESSING"

DeltaEvent(c) == <<PFX, UOPEN, c, UCLOSE, NL, NL>>
EmptyDeltaEvent == <<PFX, UOPEN, UCLOSE, NL, NL>>
RoleEvent == <<PFX, ROLE, NL, NL>>
CommentEvent == <<COMMENT, NL, NL>>

UpstreamE2E == DeltaEvent(F1) \o DeltaEvent(F2) \o DoneEvent
UpstreamMixed == CommentEvent \o RoleEvent \o DeltaEvent(F1) \o BadEvent \o DoneEvent
UpstreamEmpty == EmptyDeltaEvent \o EmptyPayloadEvent

UpstreamStreams == {UpstreamE2E, UpstreamMixed, UpstreamEmpty}

UpstreamSpecial == Special \cup {UOPEN, UCLOSE, ROLE, COMMENT}

\* JSON.parse(data) followed by the read of parsed.choices?.[0]?.delta?.content:
\* ok is FALSE when JSON.parse throws, content is "" when the chain gives
\* undefined or the empty string.
UpstreamParse(data) ==
    IF data = <<ROLE>> THEN [ok |-> TRUE, content |-> ""]
    ELSE IF Len(data) >= 2 /\ data[1] = UOPEN /\ data[Len(data)] = UCLOSE
            /\ \A i \in 2..(Len(data) - 1) : data[i] \notin UpstreamSpecial
    THEN [ok |-> TRUE, content |-> Join(SubSeq(data, 2, Len(data) - 1))]
    ELSE [ok |-> FALSE, content |-> ""]

\* The body of `for (const line of lines)`: out is the sequence of the
\* values enqueued on the controller so far.
RelayLine(line, out) ==
    IF ~StartsWithData(line) THEN out
    ELSE LET data == Tail(line) IN
         IF data = <<DONE>> THEN Append(out, DoneEvent)
         ELSE LET parsed == UpstreamParse(data) IN
              IF parsed.ok /\ parsed.content # "" THEN Append(out, ContentEvent(parsed.content))
              ELSE out

RECURSIVE RelayLines(_, _)
RelayLines(lines, out) ==
    IF lines = <<>> THEN out
    ELSE RelayLines(Tail(lines), RelayLine(Head(lines), out))

\* decoder.decode(value), chunk.split("\n") and the loop over the lines.
RelayChunk(chunk, out) == RelayLines(SplitLines(chunk, <<>>), out)

\* The relay's request: pc (idle: no request; fetch: the upstream call is
\* pending; reading: the read loop; closed: the output stream is closed;
\* failed: the route answered 500), upstream (the whole upstream body), wire
\* (what of it is still to be read), out (the values enqueued), ended (how
\* the loop was left) and status (of the route's response).
RelayIdle ==
    [pc |-> "idle", upstream |-> <<>>, wire |-> <<>>, out |-> <<>>,
     ended |-> "none", status |-> 0]

(***************************************************************************)
(* The fill-template route (POST /api/fill-template), as a process.        *)
(***************************************************************************)
NoTemplateOutcome == [ok |-> FALSE, json |-> EmptyObject]
NoLLMOutcome == [kind |-> "none", valid |-> FALSE, obj |-> EmptyObject]
NoResult == [status |-> 0, json |-> EmptyObject]

\* The route's request: pc (idle: no request; start: the body is read;
\* template: the template call is pending; llm: the language-model call is
\* pending; done: the route has answered), version (which of the two source
\* files of the route is built), the three fields of the body, the outcomes
\* of the two calls, the number of calls issued to each, and the answer.
FillRouteIdle ==
    [pc |-> "idle", version |-> "route", query |-> "", response |-> "",
     documentType |-> "", tmpl |-> NoTemplateOutcome, llm |-> NoLLMOutcome,
     templateCalls |-> 0, llmCalls |-> 0, result |-> NoResult]

(***************************************************************************)
(* The handleSubmit processes.                                             *)
(***************************************************************************)
\* The turns and the wizard runs (negated) a toast is emitted for.
Origins == (0 - MaxRuns)..MaxTurns

Null == 0

HandlerInit ==
    [pc |-> "idle", assistantMessageId |-> 0, controller |-> Null,
     wire |-> <<>>, stream |-> <<>>, dec |-> DecoderInit,
     searchOutcome |-> "none", chatOutcome |-> "none", ended |-> "none",
     stopped |-> FALSE, contentAtStop |-> ""]

\* A handler that has returned: its locals are gone.
HandlerRetired == [HandlerInit EXCEPT !.pc = "done"]

Init ==
    /\ messages = <<>>
    /\ input = <<>>
    /\ isLoading = FALSE
    /\ abortControllerRef = Null
    /\ nTurns = 0
    /\ h = [t \in Turns |-> HandlerInit]
    /\ aborted = {}
    /\ toasts = [o \in Origins |-> <<>>]
    /\ searchCalls = [t \in Turns |-> 0]
    /\ chatCalls = [t \in Turns |-> 0]
    /\ documentFields = EmptyObject
    /\ detectedDocType = ""
    /\ currentQuery = ""
    /\ currentResponse = ""
    /\ fillingFields = FALSE
    /\ showDocDialog = FALSE
    /\ w = [r \in Runs |-> RunInit]
    /\ nRuns = 0
    /\ detectCalls = [r \in Runs |-> 0]
    /\ fillCalls = [r \in Runs |-> 0]
    /\ generatingDoc = FALSE
    /\ gen = GenInit
    /\ relay = RelayIdle
    /\ fillRoute = FillRouteIdle
    /\ genLog = <<>>
    /\ downloads = <<>>


(***************************************************************************)
(* Scheduling.  abort() rejects the promise the aborted handler is         *)
(* suspended at; the continuation of that await (the catch and the finally *)
(* block) is a microtask, and the event loop runs it before it dispatches  *)
(* the next user event or network event.                                   *)
(***************************************************************************)
AbortPending(t) == h[t].pc \in {"chat", "read"} /\ h[t].controller \in aborted

MicrotaskPending == \E t \in Turns : AbortPending(t)

\* <Dialog open={showDocDialog} onOpenChange={setShowDocDialog}>: the dialog
\* is modal, so while it is shown the page outside it (the input box, the
\* send/stop button, the trigger button) takes no user event.
DialogOpen == showDocDialog

(***************************************************************************)
(* The user types into the input box (disabled while isLoading).           *)
(***************************************************************************)
SetInput(v) ==
    /\ UNCHANGED <<wizVars, routeVars>>
    /\ ~MicrotaskPending
    /\ ~DialogOpen
    /\ ~isLoading
    /\ input' = v
    /\ UNCHANGED <<messages, isLoading, abortControllerRef, nTurns, h, aborted,
                   toasts, searchCalls, chatCalls>>

(***************************************************************************)
(* handleSubmit, up to its first await (the search fetch).                 *)
(***************************************************************************)
\* handleSubmit without its guard.
SubmitNeverRejected == FALSE

\* if (!input.trim() || isLoading) return
SubmitRejected == Trim(input) = <<>> \/ isLoading

HandleSubmit ==
    /\ ~MicrotaskPending
    /\ ~DialogOpen
    /\ nTurns < MaxTurns
    /\ IF SubmitRejected THEN UNCHANGED vars
       ELSE LET t == nTurns + 1
                uid == 2 * t - 1
                aid == 2 * t
            IN /\ messages' = messages \o <<UserMessage(uid, Join(Trim(input))),
                                            AssistantMessage(aid)>>
               /\ input' = <<>>
               /\ isLoading' = TRUE
               /\ nTurns' = t
               /\ h' = [u \in Turns |->
                          IF u = t
                          THEN [HandlerInit EXCEPT !.pc = "search",
                                                   !.assistantMessageId = aid]
                          ELSE IF h[u].pc = "done" THEN HandlerRetired ELSE h[u]]
               /\ searchCalls' = [searchCalls EXCEPT ![t] = @ + 1]
               /\ UNCHANGED <<abortControllerRef, aborted, toasts, chatCalls>>
               /\ UNCHANGED <<wizVars, routeVars>>

(***************************************************************************)
(* The catch block and the finally block of handleSubmit.                  *)
(***************************************************************************)
\* The catch block without the finally block.
CatchNoFinally(t, detail) ==
    /\ messages' = MapMessage(messages, h[t].assistantMessageId,
                            [i \in 1..Len(messages) |-> ErrorState(messages[i])])
    /\ toasts' = Emit(toasts, Toast("Error", "Failed to get response: " \o detail, t))
    /\ UNCHANGED <<isLoading, abortControllerRef>>

\* The catch block with a second toast() call for the same error.
CatchNotifiesTwice(t, detail) ==
    /\ messages' = MapMessage(messages, h[t].assistantMessageId,
                            [i \in 1..Len(messages) |-> ErrorState(messages[i])])
    /\ toasts' = Emit(Emit(toasts, Toast("Error", "Failed to get response: " \o detail, t)),
                      Toast("Error", "Failed to get response: " \o detail, t))
    /\ isLoading' = FALSE
    /\ abortControllerRef' = Null

CatchFinally(t, detail) ==
    /\ messages' = MapMessage(messages, h[t].assistantMessageId,
                            [i \in 1..Len(messages) |-> ErrorState(messages[i])])
    /\ toasts' = Emit(toasts, Toast("Error", "Failed to get response: " \o detail, t))
    /\ isLoading' = FALSE
    /\ abortControllerRef' = Null

\* The final update and a finally block without `abortControllerRef.current = null`.
FinalizeKeepsController(t) ==
    /\ messages' = MapMessage(messages, h[t].assistantMessageId,
                            [i \in 1..Len(messages) |-> Finalized(messages[i])])
    /\ isLoading' = FALSE
    /\ UNCHANGED <<abortControllerRef, toasts>>

\* The end of the try block (the final setMessages) and the finally block.
FinalizeFinally(t) ==
    /\ messages' = MapMessage(messages, h[t].assistantMessageId,
                            [i \in 1..Len(messages) |-> Finalized(messages[i])])
    /\ isLoading' = FALSE
    /\ abortControllerRef' = Null
    /\ UNCHANGED toasts

(***************************************************************************)
(* The search fetch settles.                                               *)
(***************************************************************************)
SearchOutcomes == {"ok", "http_error", "network_error"}

\* The search step without the `if (!ragResponse.ok)` test.
SearchSucceededUnchecked(outcome) == outcome # "network_error"

\* fetch did not reject and ragResponse.ok
SearchSucceeded(outcome) == outcome = "ok"

SearchSettle(t, outcome) ==
    /\ UNCHANGED <<wizVars, routeVars>>
    /\ ~MicrotaskPending
    /\ h[t].pc = "search"
    /\ IF SearchSucceeded(outcome)
       THEN /\ messages' = MapMessage(messages, h[t].assistantMessageId,
                                   [i \in 1..Len(messages) |-> AttachRag(messages[i])])
            /\ abortControllerRef' = t
            /\ chatCalls' = [chatCalls EXCEPT ![t] = @ + 1]
            /\ h' = [h EXCEPT ![t].pc = "chat", ![t].controller = t,
                              ![t].searchOutcome = outcome]
            /\ UNCHANGED <<isLoading, toasts>>
       ELSE /\ CatchFinally(t, SearchErrorMessage(outcome))
            /\ h' = [h EXCEPT ![t].pc = "done", ![t].searchOutcome = outcome,
                              ![t].ended = "error"]
            /\ UNCHANGED chatCalls
    /\ UNCHANGED <<input, nTurns, aborted, searchCalls>>

(***************************************************************************)
(* The completion fetch settles.                                           *)
(***************************************************************************)
ChatOutcomes == {"ok", "nobody", "http_error", "network_error"}

ChatSettle(t, outcome, s) ==
    /\ UNCHANGED <<wizVars, routeVars>>
    /\ ~MicrotaskPending
    /\ h[t].pc = "chat"
    /\ CASE outcome = "ok" ->
              /\ h' = [h EXCEPT ![t].pc = "read", ![t].wire = s, ![t].stream = s,
                                ![t].chatOutcome = outcome]
              /\ UNCHANGED <<messages, isLoading, abortControllerRef, toasts>>
         [] outcome = "nobody" ->
              /\ FinalizeFinally(t)
              /\ h' = [h EXCEPT ![t].pc = "done", ![t].chatOutcome = outcome,
                                ![t].ended = "eof"]
         [] OTHER ->
              /\ CatchFinally(t, ChatErrorMessage(outcome))
              /\ h' = [h EXCEPT ![t].pc = "done", ![t].chatOutcome = outcome,
                                ![t].ended = "error"]
    /\ UNCHANGED <<input, nTurns, aborted, searchCalls, chatCalls>>

(***************************************************************************)
(* reader.read() settles: a chunk, the end of the stream, or an error.     *)
(***************************************************************************)
\* The content update with `content: parsed.content` for `content: streamedContent`.
ChunkUpdateOverwrites(before, after, m) ==
    IF after.frags = before.frags THEN m
    ELSE [m EXCEPT !.isSearching = IF before.firstTokenReceived THEN @ ELSE FALSE,
                   !.content = after.frags[Len(after.frags)]]

\* The content update without the setMessages call that clears isSearching.
ChunkUpdateKeepsSearching(before, after, m) ==
    IF after.frags = before.frags THEN m
    ELSE [m EXCEPT !.content = after.streamedContent]

\* The setMessages calls made while one chunk is decoded.
ChunkUpdate(before, after, m) ==
    IF after.frags = before.frags THEN m
    ELSE [m EXCEPT !.isSearching = IF before.firstTokenReceived THEN @ ELSE FALSE,
                   !.content = after.streamedContent]

ReadChunk(t, n) ==
    /\ UNCHANGED <<wizVars, routeVars>>
    /\ ~MicrotaskPending
    /\ h[t].pc = "read"
    /\ n \in 1..Len(h[t].wire)
    /\ LET chunk == SubSeq(h[t].wire, 1, n)
           rest == SubSeq(h[t].wire, n + 1, Len(h[t].wire))
           after == DecodeChunk(chunk, h[t].dec)
           upd == [i \in 1..Len(messages) |-> ChunkUpdate(h[t].dec, after, messages[i])]
       IN IF after.threw
          THEN /\ CatchFinally(t, "decode error")
               /\ h' = [h EXCEPT ![t].pc = "done", ![t].dec = after,
                                 ![t].ended = "error"]
          ELSE /\ messages' = MapMessage(messages, h[t].assistantMessageId, upd)
               /\ h' = [h EXCEPT ![t].wire = rest, ![t].dec = after]
               /\ UNCHANGED <<isLoading, abortControllerRef, toasts>>
    /\ UNCHANGED <<input, nTurns, aborted, searchCalls, chatCalls>>

ReadDone(t) ==
    /\ UNCHANGED <<wizVars, routeVars>>
    /\ ~MicrotaskPending
    /\ h[t].pc = "read"
    /\ h[t].wire = <<>>
    /\ FinalizeFinally(t)
    /\ h' = [h EXCEPT ![t].pc = "done", ![t].ended = "eof"]
    /\ UNCHANGED <<input, nTurns, aborted, searchCalls, chatCalls>>

ReadError(t) ==
    /\ UNCHANGED <<wizVars, routeVars>>
    /\ ~MicrotaskPending
    /\ h[t].pc = "read"
    /\ CatchFinally(t, "read error")
    /\ h' = [h EXCEPT ![t].pc = "done", ![t].ended = "error"]
    /\ UNCHANGED <<input, nTurns, aborted, searchCalls, chatCalls>>

(***************************************************************************)
(* The await of an aborted request rejects with an AbortError.             *)
(***************************************************************************)
AbortSettle(t) ==
    /\ UNCHANGED <<wizVars, routeVars>>
    /\ AbortPending(t)
    /\ CatchFinally(t, "aborted")
    /\ h' = [h EXCEPT ![t].pc = "done", ![t].ended = "abort"]
    /\ UNCHANGED <<input, nTurns, aborted, searchCalls, chatCalls>>

(***************************************************************************)
(* stopStreaming.                                                          *)
(***************************************************************************)
StopApplies(m) == m.type = "assistant" /\ m.isStreaming

\* stopStreaming without `if (abortControllerRef.current)` around its body
\* (the abort itself stays conditional: there is nothing to call it on).
StopStreamingUnguarded ==
    /\ ~MicrotaskPending
    /\ ~DialogOpen
    /\ LET n == Len(messages)
           hit == n > 0 /\ StopApplies(messages[n])
       IN /\ aborted' = IF abortControllerRef # Null
                         THEN aborted \cup {abortControllerRef} ELSE aborted
          /\ abortControllerRef' = Null
          /\ messages' = IF hit THEN [messages EXCEPT ![n] = Stopped(@)]
                         ELSE messages
          /\ isLoading' = FALSE
          /\ h' = [t \in Turns |->
                     IF hit /\ h[t].pc # "idle"
                        /\ h[t].assistantMessageId = messages[n].id
                     THEN [h[t] EXCEPT !.stopped = TRUE,
                                       !.contentAtStop = messages[n].content]
                     ELSE h[t]]
          /\ UNCHANGED <<input, nTurns, toasts, searchCalls, chatCalls>>
          /\ UNCHANGED <<wizVars, routeVars>>

StopStreaming ==
    /\ ~MicrotaskPending
    /\ ~DialogOpen
    /\ IF abortControllerRef # Null
       THEN LET n == Len(messages)
                hit == n > 0 /\ StopApplies(messages[n])
            IN /\ aborted' = aborted \cup {abortControllerRef}
               /\ abortControllerRef' = Null
               /\ messages' = IF hit THEN [messages EXCEPT ![n] = Stopped(@)]
                              ELSE messages
               /\ isLoading' = FALSE
               /\ h' = [t \in Turns |->
                          IF hit /\ h[t].pc # "idle"
                             /\ h[t].assistantMessageId = messages[n].id
                          THEN [h[t] EXCEPT !.stopped = TRUE,
                                            !.contentAtStop = messages[n].content]
                          ELSE h[t]]
               /\ UNCHANGED <<input, nTurns, toasts, searchCalls, chatCalls>>
               /\ UNCHANGED <<wizVars, routeVars>>
       ELSE UNCHANGED vars

(***************************************************************************)
(* The document wizard: openDocumentDialog, detectDocumentType and         *)
(* fillTemplateWithLLM.                                                    *)
(***************************************************************************)
\* pop() of a filtered list: the greatest of the indices S, or 0 when the
\* filter kept nothing.
LastOf(S) == IF S = {} THEN 0 ELSE CHOOSE i \in S : \A j \in S : j <= i

\* !m.content.trim(): of the contents a message of the model can hold, only
\* the empty one is blank.
IsBlank(str) == str = ""

\* The filter that decides under which message the button is rendered.
CompletedWithContent(m) ==
    m.type = "assistant" /\ ~m.isStreaming /\ ~m.hasError /\ ~IsBlank(m.content)

\* The filters of openDocumentDialog.
CompletedAssistant(m) == m.type = "assistant" /\ ~m.isStreaming /\ ~m.hasError

IsUser(m) == m.type = "user"

\* The button is rendered under lastCompletedAssistantMessage and disabled
\* while fillingFields.
LastCompletedAssistantMessage ==
    LastOf({i \in 1..Len(messages) : CompletedWithContent(messages[i])})

DocButtonEnabled == LastCompletedAssistantMessage # 0 /\ ~fillingFields

\* The click on the "Generate Legal Document" button.  The button is the
\* child of <DialogTrigger asChild>: its onClick (openDocumentDialog, up to
\* its first await) runs first, then the trigger's own handler calls
\* onOpenChange(!open), which is setShowDocDialog(true).
OpenDocumentDialog ==
    /\ ~MicrotaskPending
    /\ ~DialogOpen
    /\ nRuns < MaxRuns
    /\ DocButtonEnabled
    /\ showDocDialog' = ~showDocDialog
    /\ LET r == nRuns + 1
           a == LastOf({i \in 1..Len(messages) : CompletedAssistant(messages[i])})
           u == LastOf({i \in 1..Len(messages) : IsUser(messages[i])})
       IN IF a = 0 \/ u = 0
          THEN /\ toasts' = Emit(toasts,
                      Toast("Error",
                            "No complete conversation available for document generation.",
                            0 - r))
               /\ UNCHANGED <<chatVars, routeVars, documentFields, detectedDocType, currentQuery,
                              currentResponse, fillingFields, w, nRuns, detectCalls>>
          ELSE /\ currentQuery' = messages[u].content
               /\ currentResponse' = messages[a].content
               /\ w' = [x \in Runs |->
                          IF x = r
                          THEN [RunInit EXCEPT
                                   !.pc = "detect",
                                   !.lastUserMessage = messages[u].id,
                                   !.lastAssistantMessage = messages[a].id,
                                   !.query = messages[u].content,
                                   !.response = messages[a].content]
                          ELSE IF w[x].pc = "review" THEN RunRetired ELSE w[x]]
               /\ nRuns' = r
               /\ detectCalls' = [detectCalls EXCEPT ![r] = @ + 1]
               /\ UNCHANGED <<chatVars, routeVars, toasts, documentFields, detectedDocType,
                              fillingFields>>
    /\ UNCHANGED <<generatingDoc, gen, genLog, downloads, fillCalls>>

DetectOutcomes ==
    {[ok |-> TRUE, detected_type |-> d] : d \in DocTypes}
        \cup {[ok |-> FALSE, detected_type |-> ""]}

\* error.message in the catch block of detectDocumentType (the backend
\* answered with a non-2xx status).
DetectErrorMessage ==
    HttpErrorMessage("Backend detection failed", BackendFailure("detection failed").status,
                     BackendFailure("detection failed").json)

\* detectDocumentType without its `return "legal_notice"`.
DetectedTypeNoFallback(res) == IF res.ok THEN res.detected_type ELSE ""

\* What detectDocumentType returns.
DetectedType(res) == IF res.ok THEN res.detected_type ELSE DefaultDocType

\* detectDocumentType settles; openDocumentDialog goes on to the fetch of
\* fillTemplateWithLLM.
DetectSettle(r, res) ==
    /\ ~MicrotaskPending
    /\ w[r].pc = "detect"
    /\ LET docType == DetectedType(res)
       IN /\ toasts' = IF res.ok THEN toasts
                       ELSE Emit(toasts,
                                Toast("Error",
                                      "Document type detection failed: "
                                          \o DetectErrorMessage, 0 - r))
          /\ detectedDocType' = docType
          /\ fillingFields' = TRUE
          /\ w' = [w EXCEPT ![r].pc = "fill", ![r].docType = docType,
                            ![r].detectOk = res.ok]
          /\ fillCalls' = [fillCalls EXCEPT ![r] = @ + 1]
    /\ UNCHANGED <<chatVars, routeVars, documentFields, currentQuery, currentResponse,
                   showDocDialog, nRuns, generatingDoc, gen, genLog, downloads,
                   detectCalls>>

\* The catch block of fillTemplateWithLLM without its toast.
FillToastsSilent(log, ok, r, message) == log

\* The toast of the catch block of fillTemplateWithLLM.
FillToasts(log, ok, r, message) ==
    IF ok THEN log
    ELSE Emit(log, Toast("Error", "Template filling failed: " \o message, 0 - r))

\* error.message in the catch block of fillTemplateWithLLM.
FillErrorMessage(reached, res) ==
    IF reached THEN HttpErrorMessage("LLM template filling failed", res.status, res.json)
    ELSE FetchRejected

\* The fetch of /api/fill-template settles; openDocumentDialog runs to its end.
FillSettle(r, reached, tmpl, llm) ==
    /\ ~MicrotaskPending
    /\ w[r].pc = "fill"
    /\ LET res == FillTemplateRoute(w[r].query, w[r].response, w[r].docType, tmpl, llm)
           ok == reached /\ res.status = 200
           filledFields == IF ok THEN FilledFieldsOf(res.json) ELSE EmptyObject
       IN /\ toasts' = FillToasts(toasts, ok, r, FillErrorMessage(reached, res))
          /\ fillingFields' = FALSE
          /\ documentFields' = filledFields
          /\ showDocDialog' = TRUE
          /\ w' = [w EXCEPT ![r].pc = "review",
                            ![r].fillStatus = IF reached THEN res.status ELSE 0,
                            ![r].fields = IF ok THEN res.json.fields ELSE EmptyObject,
                            ![r].fillError = IF reached /\ ~ok THEN res.json
                                             ELSE EmptyObject]
    /\ UNCHANGED <<chatVars, routeVars, detectedDocType, currentQuery, currentResponse, nRuns,
                   generatingDoc, gen, genLog, downloads, detectCalls, fillCalls>>

(***************************************************************************)
(* The review dialog: Cancel (or Escape, or a click outside), and          *)
(* generateDocument.                                                       *)
(***************************************************************************)
MaxGens == 2

\* onClick={() => setShowDocDialog(false)}, and onOpenChange(false).
CloseDialog ==
    /\ ~MicrotaskPending
    /\ DialogOpen
    /\ showDocDialog' = FALSE
    /\ UNCHANGED <<chatVars, routeVars, toasts, documentFields, detectedDocType, currentQuery,
                   currentResponse, fillingFields, w, nRuns,
                   generatingDoc, gen, genLog, downloads, detectCalls, fillCalls>>

\* The "Generate PDF" button is part of the dialog's content and disabled
\* while generatingDoc.
GenerateEnabled == DialogOpen /\ ~generatingDoc

\* generateDocument, up to its fetch.  genLog records, for each call, the
\* draft (the latest wizard run) it was issued for and how it ended.
GenerateDocument ==
    /\ ~MicrotaskPending
    /\ GenerateEnabled
    /\ Len(genLog) < MaxGens
    /\ generatingDoc' = TRUE
    /\ gen' = [pc |-> "fetch",
               request |-> GenRequest(currentQuery, currentResponse, detectedDocType,
                                      documentFields)]
    /\ genLog' = Append(genLog, [draft |-> nRuns, outcome |-> "pending"])
    /\ UNCHANGED <<chatVars, routeVars, toasts, documentFields, detectedDocType, currentQuery,
                   currentResponse, fillingFields, showDocDialog, w, nRuns, downloads,
                   detectCalls, fillCalls>>

GenOutcomes == {"ok", "http_error", "network_error"}

\* error.message in the catch block of generateDocument.
GenErrorMessage(outcome) ==
    IF outcome = "http_error"
    THEN HttpErrorMessage("Backend request failed", BackendFailure("generation failed").status,
                          BackendFailure("generation failed").json)
    ELSE FetchRejected

\* generateDocument with setShowDocDialog(false) moved to its finally block.
GenerateSettleClosing(outcome) ==
    /\ ~MicrotaskPending
    /\ gen.pc = "fetch"
    /\ IF outcome = "ok"
       THEN /\ downloads' = Append(downloads, "document.pdf")
            /\ toasts' = Emit(toasts,
                   Toast("Success",
                         "Legal document generated and downloaded successfully!",
                         0 - genLog[Len(genLog)].draft))
       ELSE /\ toasts' = Emit(toasts,
                   Toast("Error",
                         "Document generation failed: " \o GenErrorMessage(outcome),
                         0 - genLog[Len(genLog)].draft))
            /\ UNCHANGED downloads
    /\ showDocDialog' = FALSE
    /\ generatingDoc' = FALSE
    /\ gen' = GenInit
    /\ genLog' = [genLog EXCEPT ![Len(genLog)].outcome =
                                    IF outcome = "ok" THEN "ok" ELSE "failed"]
    /\ UNCHANGED <<chatVars, routeVars, documentFields, detectedDocType, currentQuery,
                   currentResponse, fillingFields, w, nRuns, detectCalls, fillCalls>>

\* generateDocument with setGeneratingDoc(false) at the end of its try block
\* instead of in a finally block.
GenerateSettleNoFinally(outcome) ==
    /\ ~MicrotaskPending
    /\ gen.pc = "fetch"
    /\ IF outcome = "ok"
       THEN /\ downloads' = Append(downloads, "document.pdf")
            /\ showDocDialog' = FALSE
            /\ generatingDoc' = FALSE
            /\ toasts' = Emit(toasts,
                   Toast("Success",
                         "Legal document generated and downloaded successfully!",
                         0 - genLog[Len(genLog)].draft))
       ELSE /\ toasts' = Emit(toasts,
                   Toast("Error",
                         "Document generation failed: " \o GenErrorMessage(outcome),
                         0 - genLog[Len(genLog)].draft))
            /\ UNCHANGED <<downloads, showDocDialog, generatingDoc>>
    /\ gen' = GenInit
    /\ genLog' = [genLog EXCEPT ![Len(genLog)].outcome =
                                    IF outcome = "ok" THEN "ok" ELSE "failed"]
    /\ UNCHANGED <<chatVars, routeVars, documentFields, detectedDocType, currentQuery,
                   currentResponse, fillingFields, w, nRuns, detectCalls, fillCalls>>

\* The fetch of /doc/gen-doc settles; generateDocument runs to its end.
GenerateSettle(outcome) ==
    /\ ~MicrotaskPending
    /\ gen.pc = "fetch"
    /\ IF outcome = "ok"
       THEN /\ downloads' = Append(downloads, "document.pdf")
            /\ showDocDialog' = FALSE
            /\ toasts' = Emit(toasts,
                   Toast("Success",
                         "Legal document generated and downloaded successfully!",
                         0 - genLog[Len(genLog)].draft))
       ELSE /\ toasts' = Emit(toasts,
                   Toast("Error",
                         "Document generation failed: " \o GenErrorMessage(outcome),
                         0 - genLog[Len(genLog)].draft))
            /\ UNCHANGED <<downloads, showDocDialog>>
    /\ generatingDoc' = FALSE
    /\ gen' = GenInit
    /\ genLog' = [genLog EXCEPT ![Len(genLog)].outcome =
                                    IF outcome = "ok" THEN "ok" ELSE "failed"]
    /\ UNCHANGED <<chatVars, routeVars, documentFields, detectedDocType, currentQuery,
                   currentResponse, fillingFields, w, nRuns, detectCalls, fillCalls>>

Next ==
    \/ \E v \in Inputs : SetInput(v)
    \/ HandleSubmit
    \/ StopStreaming
    \/ \E t \in Turns, o \in SearchOutcomes : SearchSettle(t, o)
    \/ \E t \in Turns, o \in ChatOutcomes, s \in Streams : ChatSettle(t, o, s)
    \/ \E t \in Turns : \E n \in 1..Len(h[t].wire) : ReadChunk(t, n)
    \/ \E t \in Turns : ReadDone(t)
    \/ \E t \in Turns : ReadError(t)
    \/ \E t \in Turns : AbortSettle(t)

Spec == Init /\ [][Next]_vars

(***************************************************************************)
(* The page under the assumption that every network call and every read   *)
(* of the stream eventually resolves or rejects, and that a rejected await *)
(* is resumed.  The completion stream is the end-to-end stream, cut into   *)
(* chunks at any place.                                                    *)
(***************************************************************************)
ReadSettle(t) ==
    \/ \E n \in 1..Len(h[t].wire) : ReadChunk(t, n)
    \/ ReadDone(t)
    \/ ReadError(t)

LiveStreams == {E2EStream}

LiveNext ==
    \/ \E v \in Inputs : SetInput(v)
    \/ HandleSubmit
    \/ StopStreaming
    \/ \E t \in Turns, o \in SearchOutcomes : SearchSettle(t, o)
    \/ \E t \in Turns, o \in ChatOutcomes, s \in LiveStreams : ChatSettle(t, o, s)
    \/ \E t \in Turns : ReadSettle(t)
    \/ \E t \in Turns : AbortSettle(t)

Fairness ==
    \A t \in Turns :
        /\ WF_vars(\E o \in SearchOutcomes : SearchSettle(t, o))
        /\ WF_vars(\E o \in ChatOutcomes, s \in LiveStreams : ChatSettle(t, o, s))
        /\ WF_vars(ReadSettle(t))
        /\ WF_vars(AbortSettle(t))

LiveSpec == Init /\ [][LiveNext]_vars /\ Fairness

(***************************************************************************)
(* The page with the document wizard, up to the review dialog.  The wizard *)
(* reads only the messages a turn leaves behind, so the turns of this      *)
(* specification are those that differ in what the wizard can see of them  *)
(* (in flight, Completed with or without content, Failed): the completion  *)
(* stream is one of WizardStreams and arrives as one chunk, and the call   *)
(* that fails is the completion call.                                      *)
(***************************************************************************)
WizardStreams == {E2EStream, EmptyStream}

WizardOutcomes == {"ok", "http_error"}

WizardNext ==
    \/ SetInput(<<" ", "q", " ">>)
    \/ HandleSubmit
    \/ \E t \in Turns : SearchSettle(t, "ok")
    \/ \E t \in Turns, o \in WizardOutcomes, s \in WizardStreams : ChatSettle(t, o, s)
    \/ \E t \in Turns : ReadChunk(t, Len(h[t].wire))
    \/ \E t \in Turns : ReadDone(t)
    \/ OpenDocumentDialog
    \/ \E r \in Runs, res \in DetectOutcomes : DetectSettle(r, res)
    \/ \E r \in Runs, reached \in BOOLEAN, llm \in LLMOutcomes :
          \E tmpl \in TemplateOutcomes(w[r].docType) : FillSettle(r, reached, tmpl, llm)
    \/ CloseDialog

WizardSpec == Init /\ [][WizardNext]_vars

(***************************************************************************)
(* The whole document wizard, generation included, over a conversation of  *)
(* one Completed turn (the end-to-end turn).  The fill-template route      *)
(* answers with the template filled by the LLM, or fails.                  *)
(***************************************************************************)
DraftLLMOutcomes == {x \in LLMOutcomes : x.kind = "throws" \/ (x.kind = "bare" /\ x.valid)}

DraftTemplate(documentType) ==
    [ok |-> TRUE, json |-> [template_fields |-> TemplateOf(documentType)]]

DraftInit ==
    /\ messages = <<UserMessage(1, "q"),
                    [Finalized(AttachRag(AssistantMessage(2))) EXCEPT !.content = F1 \o F2]>>
    /\ input = <<>>
    /\ isLoading = FALSE
    /\ abortControllerRef = Null
    /\ nTurns = 1
    /\ h = [t \in Turns |-> IF t = 1 THEN HandlerRetired ELSE HandlerInit]
    /\ aborted = {}
    /\ toasts = [o \in Origins |-> <<>>]
    /\ searchCalls = [t \in Turns |-> IF t = 1 THEN 1 ELSE 0]
    /\ chatCalls = [t \in Turns |-> IF t = 1 THEN 1 ELSE 0]
    /\ documentFields = EmptyObject
    /\ detectedDocType = ""
    /\ currentQuery = ""
    /\ currentResponse = ""
    /\ fillingFields = FALSE
    /\ showDocDialog = FALSE
    /\ w = [r \in Runs |-> RunInit]
    /\ nRuns = 0
    /\ detectCalls = [r \in Runs |-> 0]
    /\ fillCalls = [r \in Runs |-> 0]
    /\ generatingDoc = FALSE
    /\ gen = GenInit
    /\ relay = RelayIdle
    /\ fillRoute = FillRouteIdle
    /\ genLog = <<>>
    /\ downloads = <<>>

DraftNext ==
    \/ OpenDocumentDialog
    \/ \E r \in Runs, res \in DetectOutcomes : DetectSettle(r, res)
    \/ \E r \in Runs, reached \in BOOLEAN, llm \in DraftLLMOutcomes :
          FillSettle(r, reached, DraftTemplate(w[r].docType), llm)
    \/ CloseDialog
    \/ GenerateDocument
    \/ \E o \in GenOutcomes : GenerateSettle(o)

DraftSpec == DraftInit /\ [][DraftNext]_vars

\* Every call of the wizard eventually resolves or rejects: the continuation
\* of each pending await is eventually run.
DraftFairness ==
    /\ \A r \in Runs :
          /\ WF_vars(\E res \in DetectOutcomes : DetectSettle(r, res))
          /\ WF_vars(\E reached \in BOOLEAN, llm \in DraftLLMOutcomes :
                        FillSettle(r, reached, DraftTemplate(w[r].docType), llm))
    /\ WF_vars(\E o \in GenOutcomes : GenerateSettle(o))

DraftLiveSpec == DraftInit /\ [][DraftNext]_vars /\ DraftFairness

(***************************************************************************)
(* The document wizard up to the review dialog, over the same              *)
(* conversation, with every answer of the fill-template route.             *)
(***************************************************************************)
ReviewNext ==
    \/ OpenDocumentDialog
    \/ \E r \in Runs, res \in DetectOutcomes : DetectSettle(r, res)
    \/ \E r \in Runs, reached \in BOOLEAN, llm \in LLMOutcomes :
          \E tmpl \in TemplateOutcomes(w[r].docType) : FillSettle(r, reached, tmpl, llm)
    \/ CloseDialog

ReviewSpec == DraftInit /\ [][ReviewNext]_vars

(***************************************************************************)
(* handleFieldChange, applied to a draft.  The field names are the keys of *)
(* the backend templates, the values include the empty string.             *)
(***************************************************************************)
\* ({...prev, [fieldName]: value}) without `...prev`.
FieldChangedDroppingRest(prev, fieldName, value) == [k \in {fieldName} |-> value]

\* (prev) => ({...prev, [fieldName]: value})
FieldChanged(prev, fieldName, value) == Spread(prev, [k \in {fieldName} |-> value])

\* onChange={(e) => handleFieldChange(fieldName, e.target.value)}: the
\* inputs are part of the dialog's content.
HandleFieldChange(fieldName, value) ==
    /\ ~MicrotaskPending
    /\ DialogOpen
    /\ documentFields' = FieldChanged(documentFields, fieldName, value)
    /\ UNCHANGED <<chatVars, routeVars, toasts, detectedDocType, currentQuery, currentResponse,
                   fillingFields, showDocDialog, w, nRuns,
                   generatingDoc, gen, genLog, downloads, detectCalls, fillCalls>>

EditNames == {"sender_name", "subject", "complainant_name"}

EditValues == {"", "John Doe", "[Enter Sender Name]"}

\* The drafts the function is first applied to: the empty mapping the page
\* holds, and the mappings of placeholders the extraction route returns.
EditDrafts ==
    {EmptyObject} \cup {[k \in DOMAIN TemplateOf(d) |-> Placeholder(k)] : d \in DocTypes}

\* The review dialog is shown over a conversation of one Completed turn; the
\* draft and the detected type are drawn.
EditInit ==
    /\ messages = <<UserMessage(1, "q"),
                    [Finalized(AttachRag(AssistantMessage(2))) EXCEPT !.content = F1 \o F2]>>
    /\ input = <<>>
    /\ isLoading = FALSE
    /\ abortControllerRef = Null
    /\ nTurns = 1
    /\ h = [t \in Turns |-> IF t = 1 THEN HandlerRetired ELSE HandlerInit]
    /\ aborted = {}
    /\ toasts = [o \in Origins |-> <<>>]
    /\ searchCalls = [t \in Turns |-> IF t = 1 THEN 1 ELSE 0]
    /\ chatCalls = [t \in Turns |-> IF t = 1 THEN 1 ELSE 0]
    /\ documentFields \in EditDrafts
    /\ detectedDocType \in DocTypes
    /\ currentQuery = "q"
    /\ currentResponse = F1 \o F2
    /\ fillingFields = FALSE
    /\ showDocDialog = TRUE
    /\ w = [r \in Runs |-> RunInit]
    /\ nRuns = 0
    /\ detectCalls = [r \in Runs |-> 0]
    /\ fillCalls = [r \in Runs |-> 0]
    /\ generatingDoc = FALSE
    /\ gen = GenInit
    /\ relay = RelayIdle
    /\ fillRoute = FillRouteIdle
    /\ genLog = <<>>
    /\ downloads = <<>>

EditNext == \E fieldName \in EditNames, value \in EditValues :
                HandleFieldChange(fieldName, value)

EditSpec == EditInit /\ [][EditNext]_vars


(***************************************************************************)
(* The phase of a turn, read off its assistant message.                    *)
(***************************************************************************)
Phase(m) ==
    IF m.isStreaming
    THEN IF ~m.isSearching THEN "Streaming"
         ELSE IF m.ragResponse.present THEN "AwaitingFirstToken" ELSE "Searching"
    ELSE IF m.hasError THEN "Failed"
         ELSE IF m.totalTime = "set" THEN "Completed" ELSE "Cancelled"

Terminal(m) == Phase(m) \in {"Completed", "Failed", "Cancelled"}

\* The assistant message of turn t (appended right after the user message).
TurnMessage(t) == messages[2 * t]

ActiveTurns ==
    {i \in 1..Len(messages) : messages[i].type = "assistant" /\ ~Terminal(messages[i])}

\* C1: at most one turn is in a non-terminal phase at any time, and while a
\* turn is in a non-terminal phase no step (handleSubmit in particular)
\* appends a message or issues a search call.
C1_OneTurnInFlight ==
    /\ [](Cardinality(ActiveTurns) <= 1)
    /\ [][ActiveTurns # {} => /\ Len(messages') = Len(messages)
                             /\ searchCalls' = searchCalls]_vars

C1_Witness ==
    /\ nTurns = 2
    /\ Phase(TurnMessage(1)) = "Completed"
    /\ Phase(TurnMessage(2)) = "Streaming"

\* C2: once stopStreaming has acted on a Streaming turn, the turn's content is
\* the content at the moment of the stop followed by the stop marker, and the
\* turn is Cancelled, in every later state.
C2_StopIsFinal ==
    \A t \in Turns :
        (h[t].stopped /\ h[t].dec.firstTokenReceived) =>
            /\ TurnMessage(t).content = h[t].contentAtStop \o StopMarker
            /\ Phase(TurnMessage(t)) = "Cancelled"

C2_Witness ==
    \E t \in Turns : h[t].stopped /\ h[t].dec.firstTokenReceived /\ h[t].pc = "done"

\* C3: when a stream has been read to its end, the fragments appended to the
\* turn are those the decoder yields for the whole stream as one chunk.
C3_ChunkInvariance ==
    \A t \in Turns :
        (h[t].pc = "done" /\ h[t].chatOutcome = "ok" /\ h[t].ended = "eof") =>
            h[t].dec.frags = DecodeChunk(h[t].stream, DecoderInit).frags

\* C4: a turn whose search call failed is Failed and its completion call
\* count is 0; the completion endpoint is called only for a turn whose
\* grounding results are attached.
SearchFailed(t) == h[t].searchOutcome \in {"http_error", "network_error"}

C4_SearchFailureNoCompletion ==
    \A t \in 1..nTurns :
        /\ SearchFailed(t) => /\ Phase(TurnMessage(t)) = "Failed"
                              /\ chatCalls[t] = 0
        /\ ~TurnMessage(t).ragResponse.present => chatCalls[t] = 0

C4_Witness ==
    \E t \in Turns : SearchFailed(t) /\ h[t].pc = "done" /\ searchCalls[t] = 1

\* C5: no fragment is appended to the turn after a [DONE] line has been read.
C5_DoneTerminates == \A t \in Turns : h[t].dec.afterDone = 0

\* C6: the end-to-end turn: search succeeds with one result, the stream
\* carries F1, F2 and [DONE] and is read to its end; the turn is Completed
\* with content F1 F2 and the one result attached.
C6_EndToEnd ==
    \A t \in Turns :
        (h[t].pc = "done" /\ h[t].stream = E2EStream /\ h[t].ended = "eof") =>
            /\ Phase(TurnMessage(t)) = "Completed"
            /\ TurnMessage(t).content = F1 \o F2
            /\ Len(TurnMessage(t).ragResponse.results) = 1

\* C7: a data line whose payload is not valid JSON raises no error and yields
\* no fragment: decoding any next chunk gives the same streamedContent,
\* fragments and flags as decoding that chunk with its malformed data lines
\* removed, and no error ever leaves the loop.
Malformed(line) ==
    StartsWithData(line) /\ Tail(line) # <<DONE>> /\ ~JSONParse(Tail(line)).ok

RECURSIVE JoinLines(_)
JoinLines(lines) ==
    IF lines = <<>> THEN <<>>
    ELSE IF Len(lines) = 1 THEN lines[1]
    ELSE lines[1] \o <<NL>> \o JoinLines(Tail(lines))

WellFormedLine(line) == ~Malformed(line)

WithoutMalformed(chunk) ==
    JoinLines(SelectSeq(SplitLines(chunk, <<>>), WellFormedLine))

C7_MalformedIgnored ==
    \A t \in Turns :
        /\ ~h[t].dec.threw
        /\ h[t].pc = "read" =>
             \A n \in 1..Len(h[t].wire) :
                 LET chunk == SubSeq(h[t].wire, 1, n)
                     a == DecodeChunk(chunk, h[t].dec)
                     b == DecodeChunk(WithoutMalformed(chunk), h[t].dec)
                 IN /\ ~a.threw
                    /\ [a EXCEPT !.malformed = 0] = [b EXCEPT !.malformed = 0]

C7_Witness ==
    \E t \in Turns :
        /\ h[t].pc = "done" /\ h[t].ended = "eof"
        /\ h[t].dec.malformed = 1
        /\ h[t].dec.frags = <<F1, F2>>
        /\ Phase(TurnMessage(t)) = "Completed"
        /\ TurnMessage(t).content = F1 \o F2

\* C8: a turn that is Completed, Failed or Cancelled keeps its phase in every
\* step.
C8_TerminalIsFinal ==
    [][\A i \in 1..Len(messages) :
          (messages[i].type = "assistant" /\ Terminal(messages[i])) =>
              Phase(messages'[i]) = Phase(messages[i])]_vars

\* C9: a stream that ends without any fragment having been received leaves
\* the turn Failed.
C9_EmptyResponseFails ==
    \A t \in Turns :
        (h[t].pc = "done" /\ h[t].chatOutcome = "ok" /\ h[t].ended = "eof"
         /\ h[t].dec.frags = <<>>) =>
            Phase(TurnMessage(t)) = "Failed"


\* C10: when the extraction call has answered, the field mapping of the draft
\* holds every key of the template of the detected type, each with a
\* non-empty value.
C10_AllFieldsPresent ==
    \A r \in Runs :
        (w[r].pc = "review" /\ w[r].fillStatus = 200) =>
            /\ DOMAIN TemplateOf(w[r].docType) \subseteq DOMAIN documentFields
            /\ \A k \in DOMAIN documentFields : documentFields[k] # ""

C10_Witness == \E r \in Runs : w[r].pc = "review" /\ w[r].fillStatus = 200


\* C11: when the extraction call of a run has answered with success, the
\* field mapping presented for review is the `fields` mapping of that answer.
C11_FieldsAsReturned ==
    [][\A r \in Runs :
          (w[r].pc = "fill" /\ w'[r].pc = "review" /\ w'[r].fillStatus = 200) =>
              documentFields' = w'[r].fields]_vars

C11_Witness ==
    \E r \in Runs : w[r].pc = "review" /\ w[r].fillStatus = 200
                    /\ w[r].fields # EmptyObject

\* C12: a failure of the search call, of the completion call or of a read of
\* the stream leaves the turn Failed; a Failed turn shows the generic error
\* message, has hasError true and isStreaming false, and exactly one error
\* notification was emitted for it, carrying the message of the error.
ErrorDetail(t) ==
    IF h[t].ended = "abort" THEN "aborted"
    ELSE IF SearchFailed(t) THEN SearchErrorMessage(h[t].searchOutcome)
    ELSE IF h[t].chatOutcome \in {"http_error", "network_error"}
         THEN ChatErrorMessage(h[t].chatOutcome)
    ELSE "read error"

C12_FailureSurfaced ==
    \A t \in 1..nTurns :
        LET m == TurnMessage(t) IN
        /\ h[t].ended \in {"error", "abort"} =>
              /\ Phase(m) = "Failed"
              /\ toasts[t][1].description = "Failed to get response: " \o ErrorDetail(t)
        /\ Phase(m) = "Failed" =>
              /\ m.content = ErrorText
              /\ m.hasError /\ ~m.isStreaming
              /\ Len(toasts[t]) = 1
              /\ toasts[t][1].title = "Error"

C12_Witness ==
    \E t \in Turns : h[t].ended = "error" /\ h[t].dec.frags = <<F1>>
                     /\ TurnMessage(t).content = ErrorText

\* C13: while a turn is Streaming its content is the concatenation, in
\* order, of the fragments the read loop has received so far, and every step
\* that leaves the turn Streaming appends the fragments it receives to the
\* content it found.
Streaming(t) ==
    /\ t <= nTurns
    /\ h[t].pc = "read"
    /\ Phase(TurnMessage(t)) = "Streaming"

C13_StrictAppend ==
    /\ [](\A t \in Turns : Streaming(t) => TurnMessage(t).content = Join(h[t].dec.frags))
    /\ [][\A t \in Turns :
             (h[t].pc = "read" /\ Streaming(t)') =>
                 LET old == h[t].dec.frags
                     new == h'[t].dec.frags
                 IN /\ Len(new) >= Len(old)
                    /\ SubSeq(new, 1, Len(old)) = old
                    /\ TurnMessage(t)'.content =
                          TurnMessage(t).content
                              \o Join(SubSeq(new, Len(old) + 1, Len(new)))]_vars

C13_Witness ==
    \E t \in Turns : Streaming(t) /\ h[t].dec.frags = <<F1, F2>>

\* C14: if every network call and every read of the stream settles, every
\* submitted turn reaches a terminal phase with its handler returned, and
\* isLoading, once true, becomes false again.
TurnEnded(t) ==
    /\ nTurns >= t
    /\ h[t].pc = "done"
    /\ Terminal(TurnMessage(t))

C14_EveryTurnEnds ==
    /\ \A t \in Turns : (nTurns >= t) ~> TurnEnded(t)
    /\ isLoading ~> ~isLoading

C14_Witness ==
    \E t \in Turns : TurnEnded(t) /\ h[t].ended = "abort" /\ ~isLoading

\* C15: the query and the response a wizard run passes to the detection and
\* the extraction call, and those of a generation request, are the user
\* text and the assistant text of one turn, and that turn is Completed.
SameCompletedTurn(u, a) ==
    /\ a = u + 1
    /\ messages[u].type = "user"
    /\ Phase(messages[a]) = "Completed"

C15_SameCompletedTurn ==
    /\ \A r \in Runs :
          w[r].pc \in {"detect", "fill"} =>
              /\ SameCompletedTurn(w[r].lastUserMessage, w[r].lastAssistantMessage)
              /\ w[r].query = messages[w[r].lastUserMessage].content
              /\ w[r].response = messages[w[r].lastAssistantMessage].content
    /\ gen.pc = "fetch" =>
          \E t \in 1..nTurns :
              /\ SameCompletedTurn(2 * t - 1, 2 * t)
              /\ gen.request.query = messages[2 * t - 1].content
              /\ gen.request.response = messages[2 * t].content

C15_Witness == \E r \in Runs : w[r].pc = "fill" /\ nTurns = 2

\* C16: at most one wizard run is Detecting or Extracting at a time, and no
\* generation call is issued while one is in flight.
InFlightRuns == {r \in Runs : w[r].pc \in {"detect", "fill"}}

C16_OneDraftAtATime ==
    /\ [](Cardinality(InFlightRuns) <= 1)
    /\ [][gen.pc = "fetch" => Len(genLog') = Len(genLog)]_vars

C16_Witness == \E r \in Runs : w[r].pc = "fill" /\ nRuns = 2

\* C17: in every wizard run the extraction call follows the settled
\* detection call, the review dialog is shown only when no run is Detecting
\* or Extracting, and a generation call is issued only from the shown dialog
\* of a run that has reached the review.
C17_StepsInOrder ==
    /\ [](InFlightRuns # {} => ~showDocDialog)
    /\ [][\A r \in Runs :
             (w[r].pc = "detect" /\ w'[r].pc # "detect") => w'[r].pc = "fill"]_vars
    /\ [][Len(genLog') > Len(genLog) =>
             /\ showDocDialog
             /\ nRuns > 0
             /\ InFlightRuns = {}]_vars

C17_Witness == nRuns > 0 /\ InFlightRuns = {} /\ showDocDialog /\ gen.pc = "fetch"

\* C18: when the detection call of a run fails, the detected type becomes
\* "legal_notice", one error notification is emitted for the run, and the
\* run goes on to the extraction call with that type.
C18_DetectionFallback ==
    [][\A r \in Runs :
          (w[r].pc = "detect" /\ w'[r].pc # "detect" /\ ~w'[r].detectOk) =>
              /\ detectedDocType' = "legal_notice"
              /\ w'[r].pc = "fill"
              /\ w'[r].docType = "legal_notice"
              /\ Len(toasts'[0 - r]) = Len(toasts[0 - r]) + 1
              /\ toasts'[0 - r][Len(toasts'[0 - r])].title = "Error"]_vars

C18_Witness ==
    \E r \in Runs : w[r].pc = "fill" /\ ~w[r].detectOk /\ w[r].docType = "legal_notice"

\* C19: a run whose detection call or extraction call fails still ends with
\* the review dialog shown, and one error notification has been emitted for
\* each of its failed calls.
FailedCalls(run) ==
    (IF run.detectOk THEN 0 ELSE 1) + (IF run.fillStatus = 200 THEN 0 ELSE 1)

C19_FailuresRecoverable ==
    [][\A r \in Runs :
          /\ (w[r].pc = "detect" /\ w'[r].pc # "detect") => w'[r].pc = "fill"
          /\ (w[r].pc = "fill" /\ w'[r].pc # "fill") =>
                /\ w'[r].pc = "review"
                /\ showDocDialog'
                /\ Len(toasts'[0 - r]) = FailedCalls(w'[r])
                /\ \A k \in 1..Len(toasts'[0 - r]) : toasts'[0 - r][k].title = "Error"]_vars

C19_Witness ==
    \E r \in Runs : /\ w[r].pc = "review" /\ w[r].lastUserMessage # 0
                    /\ FailedCalls(w[r]) = 2
                    /\ showDocDialog
                    /\ Len(toasts[0 - r]) = 2

\* C20: after a generation call for a draft has failed, no further generation
\* call is issued for that draft; a failed call delivers no artifact and is
\* reported by an error notification.
GenToasts(d) ==
    SelectSeq(toasts[0 - d], LAMBDA x : x.title = "Error"
                  /\ x.description \in {"Document generation failed: " \o GenErrorMessage(o) :
                                           o \in GenOutcomes \ {"ok"}})

GenCount(d, outcome) ==
    Cardinality({i \in 1..Len(genLog) : genLog[i].draft = d /\ genLog[i].outcome = outcome})

C20_GenerationFailureTerminal ==
    /\ \A i, j \in 1..Len(genLog) :
          (i < j /\ genLog[i].draft = genLog[j].draft) => genLog[i].outcome # "failed"
    /\ \A d \in Runs : Len(GenToasts(d)) = GenCount(d, "failed")
    /\ Len(downloads) = Cardinality({i \in 1..Len(genLog) : genLog[i].outcome = "ok"})

C20_Witness == \E i \in 1..Len(genLog) : genLog[i].outcome = "failed"

\* C21: a stopStreaming call that finds the current turn in a phase other
\* than Streaming (Searching, AwaitingFirstToken or a terminal phase) changes
\* neither the phase nor the content of that turn's assistant message.  A
\* stopStreaming call that gets past its guard is the step that adds a
\* controller to the aborted ones; a call stopped by the guard changes nothing.
C21_StopOnlyWhileStreaming ==
    [][aborted' # aborted =>
          LET n == Len(messages)
          IN  (n > 0 /\ messages[n].type = "assistant"
                     /\ Phase(messages[n]) # "Streaming") =>
                  /\ Phase(messages'[n]) = Phase(messages[n])
                  /\ messages'[n].content = messages[n].content]_vars

\* C22: no call is retried.  A turn calls the search endpoint at most once
\* and the completion endpoint at most once; a wizard run calls the detection
\* endpoint at most once and the extraction endpoint at most once; a turn
\* that failed has exactly one notification and a turn that did not fail has
\* none; a run that has ended has exactly one error notification per failed
\* call (the generation calls made for its draft included).
C22_NoRetry ==
    /\ \A t \in 1..nTurns :
          /\ searchCalls[t] <= 1
          /\ chatCalls[t] <= 1
          /\ Len(toasts[t]) = IF Phase(TurnMessage(t)) = "Failed" THEN 1 ELSE 0
    /\ \A r \in 1..nRuns :
          /\ detectCalls[r] <= 1
          /\ fillCalls[r] <= 1
          /\ fillCalls[r] <= detectCalls[r]
          /\ (w[r].pc = "review" /\ w[r] # RunRetired) =>
                Len(SelectSeq(toasts[0 - r], LAMBDA x : x.title = "Error"))
                    = FailedCalls(w[r]) + GenCount(r, "failed")

C22_Witness ==
    /\ \E t \in 1..nTurns : Phase(TurnMessage(t)) = "Failed" /\ chatCalls[t] = 1
    /\ \E r \in 1..nRuns : /\ w[r].pc = "review"
                           /\ FailedCalls(w[r]) = 2
                           /\ detectCalls[r] = 1 /\ fillCalls[r] = 1

\* C23: within a turn the updates follow the events.  The grounding results
\* are on the message only once the search call has resolved, they are there
\* when the completion call is issued, and once attached they are never
\* replaced; while the turn goes on, isSearching is cleared by the step that
\* receives the first non-empty fragment and by no other; a step that writes
\* content leaves isSearching cleared; and no assistant message has
\* isSearching true and a non-empty content.
C23_EventOrder ==
    /\ [](\A t \in 1..nTurns :
             /\ TurnMessage(t).ragResponse.present => h[t].pc \notin {"idle", "search"}
             /\ chatCalls[t] > 0 => TurnMessage(t).ragResponse.present
             /\ TurnMessage(t).isSearching => TurnMessage(t).content = "")
    /\ [][\A t \in 1..nTurns :
             /\ TurnMessage(t).ragResponse.present =>
                   TurnMessage(t)'.ragResponse = TurnMessage(t).ragResponse
             /\ (chatCalls'[t] > chatCalls[t]) => TurnMessage(t)'.ragResponse.present
             /\ (TurnMessage(t).isStreaming /\ TurnMessage(t)'.isStreaming) =>
                   /\ (TurnMessage(t).isSearching /\ ~TurnMessage(t)'.isSearching)
                         <=> (~h[t].dec.firstTokenReceived /\ h'[t].dec.firstTokenReceived)
                   /\ TurnMessage(t)'.content # TurnMessage(t).content =>
                         ~TurnMessage(t)'.isSearching]_vars

C23_Witness ==
    \E t \in 1..nTurns :
        /\ Phase(TurnMessage(t)) = "Streaming"
        /\ TurnMessage(t).ragResponse.present
        /\ TurnMessage(t).content = F1
        /\ h[t].dec.firstTokenReceived

\* C24: the generation request issued for a draft carries, as query and
\* response, the values fixed when the draft's wizard run started; as
\* document_type, the type the detection of that run set; and as
\* user_details, the field mapping the extraction of that run returned, with
\* the user's edits applied.  The dialog renders one input per key of
\* documentFields, so an edit can only rewrite a key that is already there.
C24_GenerationRequest ==
    [][Len(genLog') > Len(genLog) =>
          LET r == genLog'[Len(genLog')].draft
              edited == [k \in DOMAIN w[r].fields |->
                            IF k \in DOMAIN documentFields THEN documentFields[k]
                            ELSE w[r].fields[k]]
          IN  /\ w[r].pc = "review"
              /\ gen'.request.query = w[r].query
              /\ gen'.request.response = w[r].response
              /\ gen'.request.document_type = w[r].docType
              /\ DOMAIN gen'.request.user_details = DOMAIN w[r].fields
              /\ gen'.request.user_details = edited]_vars

\* C25: a submission of an empty or all-whitespace text changes nothing; an
\* accepted submission appends exactly one user message, whose content is
\* the text without its leading and trailing whitespace, followed by one
\* assistant message with no content; and no step removes or reorders a
\* message or changes a user message.  (When no handler is running, a
\* submission is the only operation that could write messages.)
AllWhitespace(s) == \A i \in 1..Len(s) : s[i] = " "

\* The text between the first and the last character that is not a space.
Core(s) ==
    LET ink == {i \in 1..Len(s) : s[i] # " "}
    IN  IF ink = {} THEN <<>>
        ELSE SubSeq(s, CHOOSE i \in ink : \A j \in ink : i <= j,
                       CHOOSE i \in ink : \A j \in ink : j <= i)

C25_MessagesAppendOnly ==
    [][LET n == Len(messages)
       IN  /\ Len(messages') >= n
           /\ \A i \in 1..n :
                 /\ messages'[i].id = messages[i].id
                 /\ messages'[i].type = messages[i].type
                 /\ messages[i].type = "user" => messages'[i] = messages[i]
           /\ (AllWhitespace(input) /\ \A t \in Turns : h[t].pc \in {"idle", "done"}) =>
                 /\ messages' = messages
                 /\ isLoading' = isLoading
                 /\ searchCalls' = searchCalls
           /\ Len(messages') > n =>
                 /\ ~AllWhitespace(input)
                 /\ Len(messages') = n + 2
                 /\ messages'[n + 1].type = "user"
                 /\ messages'[n + 1].content = Join(Core(input))
                 /\ messages'[n + 2].type = "assistant"
                 /\ messages'[n + 2].content = ""]_vars

C25_Witness ==
    /\ Len(messages) = 2
    /\ messages[1].type = "user" /\ messages[1].content = "q"
    /\ messages[2].type = "assistant" /\ Terminal(messages[2])
    /\ input = <<" ">>
    /\ ~isLoading

\* C26: when the search, completion, detection or extraction call is
\* answered with a non-2xx status, the notification shows the error detail
\* the response body carries, and the status text when the body carries none.
\* The detail a body carries is the text under its `detail` or `error` key.
CarriedDetail(json) ==
    IF "detail" \in DOMAIN json THEN json.detail
    ELSE IF "error" \in DOMAIN json THEN json.error ELSE ""

Surfaced(prefix, status, json) ==
    prefix \o ": " \o StatusString(status) \o " - "
        \o (IF CarriedDetail(json) # "" THEN CarriedDetail(json) ELSE StatusText(status))

C26_ErrorDetailSurfaced ==
    /\ \A t \in 1..nTurns :
          /\ h[t].searchOutcome = "http_error" =>
                toasts[t][1].description =
                    "Failed to get response: "
                        \o Surfaced("RAG API request failed",
                                    BackendFailure("search failed").status,
                                    BackendFailure("search failed").json)
          /\ h[t].chatOutcome = "http_error" =>
                toasts[t][1].description =
                    "Failed to get response: "
                        \o Surfaced("OpenRouter API request failed",
                                    ChatRouteFailure.status, ChatRouteFailure.json)
    /\ \A r \in 1..nRuns :
          (w[r].pc = "review" /\ w[r] # RunRetired) =>
              /\ ~w[r].detectOk =>
                    toasts[0 - r][1].description =
                        "Document type detection failed: "
                            \o Surfaced("Backend detection failed",
                                        BackendFailure("detection failed").status,
                                        BackendFailure("detection failed").json)
              /\ w[r].fillStatus \notin {0, 200} =>
                    toasts[0 - r][Len(toasts[0 - r])].description =
                        "Template filling failed: "
                            \o Surfaced("LLM template filling failed",
                                        w[r].fillStatus, w[r].fillError)

\* C27: in every state isLoading is false exactly when no assistant message
\* has isStreaming true; and a turn that was stopped has run its catch and
\* finally blocks before any later turn exists, so its finally block never
\* clears isLoading under a later turn.
C27_LoadingIffStreaming ==
    /\ isLoading <=> \E i \in 1..Len(messages) :
                        messages[i].type = "assistant" /\ messages[i].isStreaming
    /\ \A t \in 1..nTurns : (h[t].stopped /\ h[t].pc # "done") => t = nTurns

C27_Witness ==
    /\ nTurns = 2
    /\ aborted = {1}
    /\ Phase(TurnMessage(1)) = "Failed"
    /\ TurnMessage(2).isStreaming
    /\ isLoading

\* C28: while a turn is in AwaitingFirstToken or Streaming, abortControllerRef
\* holds the controller of that turn's completion request, and a stop aborts
\* that controller and no other; abortControllerRef is null whenever no
\* completion request is in flight; and when a turn's handler ends, the ref
\* it clears is null already or holds that turn's own controller.
InFlight(t) == h[t].pc \in {"chat", "read"} /\ h[t].controller \notin aborted

C28_ControllerOfCurrentTurn ==
    /\ [](/\ \A t \in 1..nTurns :
               Phase(TurnMessage(t)) \in {"AwaitingFirstToken", "Streaming"} =>
                   /\ InFlight(t)
                   /\ h[t].controller # Null
                   /\ abortControllerRef = h[t].controller
          /\ abortControllerRef # Null =>
                \E t \in 1..nTurns : InFlight(t) /\ h[t].controller = abortControllerRef)
    /\ [][/\ aborted' # aborted =>
                \E t \in 1..nTurns :
                    /\ Phase(TurnMessage(t)) \in {"AwaitingFirstToken", "Streaming"}
                    /\ aborted' = aborted \cup {h[t].controller}
          /\ \A t \in 1..nTurns :
                (h[t].pc # "done" /\ h'[t].pc = "done") =>
                    /\ abortControllerRef \in {Null, h[t].controller}
                    /\ abortControllerRef' = Null]_vars

C28_Witness ==
    /\ nTurns = 2
    /\ Phase(TurnMessage(1)) = "Failed"
    /\ aborted = {1}
    /\ Phase(TurnMessage(2)) = "Streaming"
    /\ abortControllerRef = h[2].controller
    /\ abortControllerRef # Null

\* C29: while a turn is Searching no abort controller exists, so a stop
\* changes nothing: as long as the search call has not resolved, no step
\* changes messages, isLoading, the aborted controllers or the calls made;
\* and when the search call resolves with success the turn goes on to the
\* completion call.
C29_StopWhileSearching ==
    /\ [](\A t \in 1..nTurns :
             h[t].pc = "search" =>
                 /\ abortControllerRef = Null
                 /\ isLoading
                 /\ Phase(TurnMessage(t)) = "Searching")
    /\ [][\A t \in 1..nTurns :
             h[t].pc = "search" =>
                 /\ h'[t].pc = "search" =>
                       /\ messages' = messages
                       /\ isLoading' = isLoading
                       /\ aborted' = aborted
                       /\ abortControllerRef' = abortControllerRef
                       /\ searchCalls' = searchCalls
                       /\ chatCalls' = chatCalls
                 /\ h'[t].pc # "search" =>
                       /\ h'[t].searchOutcome # "none"
                       /\ h'[t].searchOutcome = "ok" =>
                             /\ h'[t].pc = "chat"
                             /\ chatCalls'[t] = chatCalls[t] + 1
                             /\ Phase(TurnMessage(t)') = "AwaitingFirstToken"]_vars

C29_Witness ==
    /\ nTurns = 2
    /\ aborted = {1}
    /\ h[2].pc = "search"
    /\ Phase(TurnMessage(2)) = "Searching"
    /\ abortControllerRef = Null
    /\ isLoading

\* C30: every step that changes a message that already exists changes
\* exactly one, and that one is the assistant message of the turn whose
\* handler is running: every user message and the assistant message of
\* every other turn are left as they were.
C30_OnlyOwnMessage ==
    [][LET changed == {i \in 1..Len(messages) : messages'[i] # messages[i]}
       IN  changed # {} =>
               \E t \in 1..nTurns :
                   /\ h[t].pc \in {"search", "chat", "read"}
                   /\ changed = {2 * t}
                   /\ messages[2 * t].type = "assistant"
                   /\ messages[2 * t].id = h[t].assistantMessageId]_vars

C30_Witness ==
    /\ nTurns = 2
    /\ Phase(TurnMessage(1)) = "Completed"
    /\ TurnMessage(1).content = F1 \o F2
    /\ Phase(TurnMessage(2)) = "Cancelled"
    /\ TurnMessage(2).content = F1 \o StopMarker
    /\ messages[1].content = "q" /\ messages[3].content = "q"

\* C31: handleFieldChange(name, value) leaves the draft with the field name
\* set to value, every other field as it was and no key removed; it changes
\* nothing else of the wizard state (detectedDocType, currentQuery and
\* currentResponse in particular); and every value, the empty string
\* included, is accepted.
C31_EditOneField ==
    /\ [][documentFields' # documentFields =>
             /\ DOMAIN documentFields \subseteq DOMAIN documentFields'
             /\ \E name \in EditNames :
                   /\ DOMAIN documentFields' = DOMAIN documentFields \cup {name}
                   /\ \A k \in DOMAIN documentFields :
                         k # name => documentFields'[k] = documentFields[k]
             /\ detectedDocType' = detectedDocType
             /\ currentQuery' = currentQuery
             /\ currentResponse' = currentResponse
             /\ showDocDialog' = showDocDialog]_vars
    /\ [](\A name \in EditNames, value \in EditValues :
             ENABLED (/\ HandleFieldChange(name, value)
                      /\ name \in DOMAIN documentFields'
                      /\ documentFields'[name] = value))

C31_Witness ==
    /\ DOMAIN documentFields = {"sender_name", "subject"}
    /\ documentFields["sender_name"] = ""
    /\ documentFields["subject"] = "John Doe"

\* C32: the step that ends a generation call leaves generatingDoc false.
\* When the call failed it leaves documentFields, detectedDocType,
\* currentQuery and currentResponse as they were and does not close the
\* review dialog; when the call succeeded it closes the dialog and emits a
\* success notification.
C32_GenerationOutcome ==
    [][(gen.pc = "fetch" /\ gen'.pc = "idle") =>
          LET d == genLog[Len(genLog)].draft
              log == toasts'[0 - d]
          IN  /\ generatingDoc /\ ~generatingDoc'
              /\ genLog'[Len(genLog')].outcome = "failed" =>
                    /\ documentFields' = documentFields
                    /\ detectedDocType' = detectedDocType
                    /\ currentQuery' = currentQuery
                    /\ currentResponse' = currentResponse
                    /\ showDocDialog' = showDocDialog
                    /\ Len(log) = Len(toasts[0 - d]) + 1
                    /\ log[Len(log)].title = "Error"
              /\ genLog'[Len(genLog')].outcome = "ok" =>
                    /\ ~showDocDialog'
                    /\ Len(log) = Len(toasts[0 - d]) + 1
                    /\ log[Len(log)].title = "Success"]_vars

C32_Witness ==
    /\ Len(genLog) = 2
    /\ genLog[1].outcome = "failed" /\ genLog[2].outcome = "ok"
    /\ genLog[1].draft = genLog[2].draft
    /\ ~showDocDialog /\ ~generatingDoc
    /\ Len(downloads) = 1

\* C33: provided every call eventually resolves or rejects, fillingFields is
\* false again after every extraction call and generatingDoc is false again
\* after every generation call, whatever the outcome; and the flags are set
\* only while such a call is pending.
C33_BusyFlagsReturn ==
    /\ fillingFields ~> ~fillingFields
    /\ generatingDoc ~> ~generatingDoc
    /\ [](fillingFields => \E r \in Runs : w[r].pc = "fill")
    /\ [](generatingDoc <=> gen.pc = "fetch")

C33_Witness ==
    /\ ~fillingFields /\ ~generatingDoc
    /\ \E r \in Runs : w[r].pc = "review" /\ w[r].fillStatus = 500
    /\ \E i \in 1..Len(genLog) : genLog[i].outcome = "failed"


(***************************************************************************)
(* The chat relay route, as a process: one request.                        *)
(***************************************************************************)
RelayFetchOutcomes == {"ok", "http_error", "network_error", "no_body"}

\* POST: the body is read and the upstream call is issued.
RelayPost ==
    /\ relay.pc = "idle"
    /\ relay' = [relay EXCEPT !.pc = "fetch"]
    /\ UNCHANGED <<chatVars, toasts, wizVars, fillRoute>>

\* The upstream call settles: a rejection or a non-2xx answer is thrown to
\* the outer catch (500); without a body the stream is closed at once;
\* otherwise the read loop starts on the upstream body s.
RelayFetchSettle(outcome, s) ==
    /\ relay.pc = "fetch"
    /\ relay' =
         IF outcome \in {"http_error", "network_error"}
         THEN [relay EXCEPT !.pc = "failed", !.status = ChatRouteFailure.status]
         ELSE IF outcome = "no_body"
         THEN [relay EXCEPT !.pc = "closed", !.status = 200, !.ended = "no_reader"]
         ELSE [relay EXCEPT !.pc = "reading", !.status = 200,
                            !.upstream = s, !.wire = s]
    /\ UNCHANGED <<chatVars, toasts, wizVars, fillRoute>>

\* reader.read() resolves with the next n tokens of the upstream body.
RelayRead(n) ==
    /\ relay.pc = "reading"
    /\ n \in 1..Len(relay.wire)
    /\ relay' = [relay EXCEPT
                   !.out = RelayChunk(SubSeq(relay.wire, 1, n), relay.out),
                   !.wire = SubSeq(relay.wire, n + 1, Len(relay.wire))]
    /\ UNCHANGED <<chatVars, toasts, wizVars, fillRoute>>

\* reader.read() resolves with done: break, then finally.
RelayDone ==
    /\ relay.pc = "reading"
    /\ relay.wire = <<>>
    /\ relay' = [relay EXCEPT !.pc = "closed", !.ended = "eof"]
    /\ UNCHANGED <<chatVars, toasts, wizVars, fillRoute>>

\* reader.read() rejects: catch, then finally.
RelayReadError ==
    /\ relay.pc = "reading"
    /\ relay' = [relay EXCEPT !.pc = "closed", !.ended = "error"]
    /\ UNCHANGED <<chatVars, toasts, wizVars, fillRoute>>

RelayNext ==
    \/ RelayPost
    \/ \E o \in RelayFetchOutcomes, s \in UpstreamStreams : RelayFetchSettle(o, s)
    \/ \E n \in 1..Len(relay.wire) : RelayRead(n)
    \/ RelayDone
    \/ RelayReadError

RelaySpec == Init /\ [][RelayNext]_vars

\* C34: when the relay has read its upstream to the end, the events it has
\* emitted are those of the upstream data lines in order (one content event
\* per line with a non-empty choices[0].delta.content, [DONE] forwarded,
\* nothing for the other lines), whatever the chunks were: the same events
\* as for the upstream body delivered whole; and the output stream is closed
\* whenever the upstream has ended or a read has failed.
C34_RelayEvents ==
    /\ relay.ended \in {"eof", "error"} => relay.pc = "closed"
    /\ (relay.pc = "closed" /\ relay.ended = "eof") =>
          /\ relay.out = RelayChunk(relay.upstream, <<>>)
          /\ relay.upstream = UpstreamE2E =>
                relay.out = <<ContentEvent(F1), ContentEvent(F2), DoneEvent>>


(***************************************************************************)
(* The fill-template route, as a process: one request.                     *)
(***************************************************************************)
RouteVersions == {"route", "direct"}
RouteQueries == {"", "draft a notice", "file an FIR"}
RouteResponses == {"", F1, F1 \o F2}
RouteDocTypes == {""} \cup DocTypes

\* The answer of the version of the route that is built.
RouteAnswer(version, query, response, documentType, tmpl, llm) ==
    IF version = "route"
    THEN FillTemplateRoute(query, response, documentType, tmpl, llm)
    ELSE FillTemplateRouteDirect(query, response, documentType, tmpl, llm)

\* FillRoutePost without the check of the body.
FillRoutePostUnchecked(version, query, response, documentType) ==
    /\ fillRoute.pc = "idle"
    /\ fillRoute' = [fillRoute EXCEPT
                       !.version = version, !.query = query,
                       !.response = response, !.documentType = documentType,
                       !.pc = "template", !.templateCalls = @ + 1]
    /\ UNCHANGED <<chatVars, toasts, wizVars, relay>>

\* POST: the body is read; with a field missing the route answers at once,
\* otherwise it issues the template call.
FillRoutePost(version, query, response, documentType) ==
    /\ fillRoute.pc = "idle"
    /\ LET f == [fillRoute EXCEPT
                   !.version = version, !.query = query,
                   !.response = response, !.documentType = documentType]
       IN fillRoute' =
            IF query = "" \/ response = "" \/ documentType = ""
            THEN [f EXCEPT !.pc = "done",
                           !.result = RouteAnswer(version, query, response, documentType,
                                                  NoTemplateOutcome, NoLLMOutcome)]
            ELSE [f EXCEPT !.pc = "template", !.templateCalls = @ + 1]
    /\ UNCHANGED <<chatVars, toasts, wizVars, relay>>

\* The template call settles: a non-2xx answer is thrown to the catch (500),
\* otherwise the language model is called.
FillRouteTemplateSettle(tmpl) ==
    /\ fillRoute.pc = "template"
    /\ fillRoute' =
         IF ~tmpl.ok
         THEN [fillRoute EXCEPT
                 !.tmpl = tmpl, !.pc = "done",
                 !.result = RouteAnswer(fillRoute.version, fillRoute.query,
                                        fillRoute.response, fillRoute.documentType,
                                        tmpl, NoLLMOutcome)]
         ELSE [fillRoute EXCEPT !.tmpl = tmpl, !.pc = "llm", !.llmCalls = @ + 1]
    /\ UNCHANGED <<chatVars, toasts, wizVars, relay>>

\* The language-model call settles: the text is parsed, the fields are merged
\* and the route answers.
FillRouteLLMSettle(llm) ==
    /\ fillRoute.pc = "llm"
    /\ fillRoute' = [fillRoute EXCEPT
                       !.llm = llm, !.pc = "done",
                       !.result = RouteAnswer(fillRoute.version, fillRoute.query,
                                              fillRoute.response, fillRoute.documentType,
                                              fillRoute.tmpl, llm)]
    /\ UNCHANGED <<chatVars, toasts, wizVars, relay>>

FillRouteNext ==
    \/ \E v \in RouteVersions, q \in RouteQueries, r \in RouteResponses,
          d \in RouteDocTypes : FillRoutePost(v, q, r, d)
    \/ \E tmpl \in TemplateOutcomes(fillRoute.documentType) : FillRouteTemplateSettle(tmpl)
    \/ \E llm \in LLMOutcomes : FillRouteLLMSettle(llm)

FillRouteSpec == Init /\ [][FillRouteNext]_vars

\* C35: in every success answer of the fill-template route the returned
\* mapping has every key of the backend template, an extracted value
\* overriding the template's value for the same key; and when the text of
\* the language model cannot be parsed as JSON, every key of the template
\* carries the placeholder "[Enter <Title Cased Field Name>]".
TitleCasedPlaceholder ==
    [sender_name |-> "[Enter Sender Name]", subject |-> "[Enter Subject]",
     date_of_notice |-> "[Enter Date Of Notice]",
     complainant_name |-> "[Enter Complainant Name]"]

C35_FieldsCoverTemplate ==
    (fillRoute.pc = "done" /\ fillRoute.result.status = 200) =>
        LET templateFields == TemplateFields(fillRoute.tmpl.json)
            fields == fillRoute.result.json.fields
        IN /\ DOMAIN templateFields \subseteq DOMAIN fields
           /\ fillRoute.llm.valid =>
                \A k \in DOMAIN fields :
                    fields[k] = IF k \in DOMAIN fillRoute.llm.obj
                                THEN fillRoute.llm.obj[k] ELSE templateFields[k]
           /\ ~fillRoute.llm.valid =>
                /\ DOMAIN fields = DOMAIN templateFields
                /\ \A k \in DOMAIN templateFields : fields[k] = TitleCasedPlaceholder[k]


\* C36: a request to the fill-template route in which query, response or
\* documentType is missing or empty is answered 400 with no call issued,
\* neither to the template endpoint nor to the language model; and when the
\* template call fails the route answers 500 and the language model is not
\* called.
RouteBodyIncomplete ==
    fillRoute.query = "" \/ fillRoute.response = "" \/ fillRoute.documentType = ""

C36_RejectBeforeCalls ==
    /\ (fillRoute.pc # "idle" /\ RouteBodyIncomplete) =>
          /\ fillRoute.pc = "done"
          /\ fillRoute.result.status = 400
          /\ fillRoute.templateCalls = 0
          /\ fillRoute.llmCalls = 0
    /\ (fillRoute.pc = "done" /\ ~RouteBodyIncomplete /\ ~fillRoute.tmpl.ok) =>
          /\ fillRoute.result.status = 500
          /\ fillRoute.templateCalls = 1
          /\ fillRoute.llmCalls = 0
    /\ fillRoute.llmCalls > 0 => (fillRoute.tmpl.ok /\ ~RouteBodyIncomplete)

C36_Witness ==
    /\ fillRoute.pc = "done"
    /\ fillRoute.query = "draft a notice"
    /\ fillRoute.response = F1 \o F2
    /\ fillRoute.documentType = ""
    /\ fillRoute.result.status = 400

====
